---- MODULE Spec2Model ----
(***************************************************************************)
(* LZW codec of lzw.py: Trie, lzw_compress, lzw_decompress.                *)
(*                                                                         *)
(* A run either compresses input_bytes and hands the returned list to      *)
(* lzw_decompress with the same parameters (mode "roundtrip"), or calls    *)
(* lzw_decompress on an arbitrary code list (mode "decode").  One action   *)
(* is one loop iteration of the source.                                    *)
(*                                                                         *)
(* Scaling.  The source works on bytes 0..255, gives new entries the codes *)
(* 256, 257, ... and starts the variable width at 9 bits (2^9 = 2 * 256).  *)
(* The model keeps that structure over an alphabet of AlphabetSize bytes:  *)
(* the first free code is AlphabetSize and the initial variable width is   *)
(* the number of bits of the alphabet plus one (9 for 256 bytes), so the   *)
(* table fills and the width grows within inputs of a few bytes.           *)
(***************************************************************************)
EXTENDS Integers, Sequences, FiniteSets, TLC

\* ---------------------------------------------------------------- bounds
AlphabetSize == 2
MaxLen == 6
MaxCodes == 4
MaxCode == 4
ExtraBits == 1

\* ------------------------------------------------------------- constants
\* TrieNode.code = None: no code; search's "not found"
None == -1

Bytes == 0 .. (AlphabetSize - 1)

\* the code of the first new entry (Trie.next_code = 256, next_code = 256)
FirstCode == AlphabetSize

RECURSIVE BitsFor(_)
\* least w with 2^w >= n: 8 for the 256 byte values
BitsFor(n) == IF n <= 1 THEN 0 ELSE 1 + BitsFor((n + 1) \div 2)

\* the initial width under variable_bits (9 in the source)
InitWidth == BitsFor(AlphabetSize) + 1

\* max_bits as the caller may pass it: the interface's minimum (InitWidth,
\* 9 in the source) and above, and one value below it
MaxBitsChoices == (InitWidth - 1) .. (InitWidth + ExtraBits)

RECURSIVE SeqsUpTo(_, _)
SeqsUpTo(S, n) ==
    IF n = 0 THEN {<<>>}
    ELSE LET shorter == SeqsUpTo(S, n - 1)
         IN  shorter \cup {Append(s, x) : s \in {t \in shorter : Len(t) = n - 1}, x \in S}

VARIABLES
    mode,               \* "roundtrip" | "decode"
    pc,                 \* "compress" | "decompress" | "loop" | "returned" | "raised"
    input_bytes, max_bits, variable_bits,
    \* lzw_compress
    pos,                \* index of the next byte of `for byte in input_bytes`
    trie,               \* trie.root: node path -> node.code
    trie_next_code,     \* trie.next_code
    c_current_bytes, c_current_code_size, c_max_table_size,
    compressed_data,    \* the code list: built by lzw_compress, passed to lzw_decompress
    \* lzw_decompress
    idx,                \* index of the next element of `for code in compressed_data`
    table, next_code,
    d_current_bytes, d_current_code_size, d_max_table_size,
    decompressed_data,  \* list of chunks
    code,               \* the code of the last iteration
    ret,                \* bytes returned by lzw_decompress (pc = "returned")
    err,                \* exception raised by lzw_decompress (pc = "raised")
    \* history
    branches,           \* per consumed code, how it was resolved: "first" | "table" | "forward"
    codes_in,           \* the code list as it was when lzw_decompress was called
    enc_after           \* enc_after[k+1]: the encoder's dictionary state after k emitted codes

cvars == <<pos, trie, trie_next_code, c_current_bytes, c_current_code_size, c_max_table_size>>
dvars == <<idx, table, next_code, d_current_bytes, d_current_code_size, d_max_table_size,
           decompressed_data, code, branches, ret, err>>
params == <<mode, input_bytes, max_bits, variable_bits>>
vars == <<params, pc, cvars, compressed_data, dvars, codes_in, enc_after>>

\* ------------------------------------------------------------------ Trie
\* the paths root..key: the nodes insert walks through
Prefixes(key) == {SubSeq(key, 1, i) : i \in 0 .. Len(key)}

\* Trie.__init__: a root without code
EmptyTrie == [p \in {<<>>} |-> None]

\* insert with `node.code = code` inside the loop: every node on the path gets the code
insertIndented(t, key, c) ==
    [p \in DOMAIN t \cup Prefixes(key) |->
        IF p \in Prefixes(key) \ {<<>>} THEN c ELSE t[p]]

\* Trie.insert: creates the missing nodes on the path (code None), sets the last node's code
insert(t, key, c) ==
    [p \in DOMAIN t \cup Prefixes(key) |->
        IF p = key THEN c ELSE IF p \in DOMAIN t THEN t[p] ELSE None]

RECURSIVE Walk(_, _, _)
Walk(t, key, i) ==
    IF i > Len(key) THEN t[key]
    ELSE IF SubSeq(key, 1, i) \in DOMAIN t THEN Walk(t, key, i + 1)
    ELSE None

\* search giving up below the second level of the trie
searchShort(t, key) == IF Len(key) > 2 THEN None ELSE Walk(t, key, 1)

\* Trie.search: node.code of the node at key, None when a child is missing
search(t, key) == Walk(t, key, 1)

RECURSIVE InitTrie(_)
\* for i in range(256): trie.insert(bytes([i]), i)
InitTrie(n) == IF n = 0 THEN EmptyTrie ELSE insert(InitTrie(n - 1), <<n - 1>>, n - 1)

\* table = {i: bytes([i]) for i in range(256)}
InitTable == [c \in Bytes |-> <<c>>]

\* current_code_size = 9 if variable_bits else max_bits
InitCodeSize(vb, mb) == IF vb THEN InitWidth ELSE mb

\* the (sequence, code) pairs registered in the trie / in the table
TriePairs(t) == {<<p, t[p]>> : p \in {q \in DOMAIN t : t[q] # None}}
TablePairs(tb) == {<<tb[c], c>> : c \in DOMAIN tb}

\* the encoder's dictionary state, as recorded after each emitted code
Snapshot(t, nc, size, ceiling) ==
    [pairs |-> TriePairs(t), next_code |-> nc, size |-> size, ceiling |-> ceiling]

\* ------------------------------------------------------------------ Init
Init ==
    /\ mode \in {"roundtrip", "decode"}
    /\ max_bits \in MaxBitsChoices
    /\ variable_bits \in BOOLEAN
    /\ IF mode = "roundtrip"
       THEN /\ input_bytes \in SeqsUpTo(Bytes, MaxLen)
            /\ compressed_data = <<>>
            /\ pc = "compress"
       ELSE /\ input_bytes = <<>>
            /\ compressed_data \in SeqsUpTo(0 .. MaxCode, MaxCodes)
            /\ pc = "decompress"
    /\ pos = 1
    /\ trie = InitTrie(AlphabetSize)
    /\ trie_next_code = FirstCode
    /\ c_current_bytes = <<>>
    /\ c_current_code_size = InitCodeSize(variable_bits, max_bits)
    /\ c_max_table_size = 2 ^ InitCodeSize(variable_bits, max_bits)
    /\ idx = 1
    /\ table = InitTable
    /\ next_code = FirstCode
    /\ d_current_bytes = <<>>
    /\ d_current_code_size = InitCodeSize(variable_bits, max_bits)
    /\ d_max_table_size = 2 ^ InitCodeSize(variable_bits, max_bits)
    /\ decompressed_data = <<>>
    /\ code = None
    /\ branches = <<>>
    /\ ret = <<>>
    /\ err = "none"
    /\ codes_in = compressed_data
    /\ enc_after = <<Snapshot(trie, trie_next_code, c_current_code_size, c_max_table_size)>>

\* ---------------------------------------------------------- lzw_compress
\* get_next_code without the increment
get_next_code_stuck(nc) == [code |-> nc, next_code |-> nc]

\* Trie.get_next_code: returns the next free code and advances the counter
get_next_code(nc) == [code |-> nc, next_code |-> nc + 1]

\* line 79 with <= for <
TrieHasRoomOffByOne(nc, ceiling) == nc <= ceiling

\* line 79: if trie.next_code < max_table_size
TrieHasRoom(nc, ceiling) == nc < ceiling

\* line 84 with > for >=
CompressGrowsLate(vb, nc, ceiling, size, mb) == vb /\ nc > ceiling /\ size < mb

\* line 84 without the current_code_size < max_bits test
CompressGrowsUnbounded(vb, nc, ceiling, size, mb) == vb /\ nc >= ceiling

\* line 84: if variable_bits and trie.next_code >= max_table_size and current_code_size < max_bits
CompressGrows(vb, nc, ceiling, size, mb) == vb /\ nc >= ceiling /\ size < mb

\* lines 89-90 without the `if current_bytes` test
FlushAlways(out, t, cb) == Append(out, search(t, cb))

\* lines 89-90: if current_bytes: compressed_data.append(trie.search(current_bytes))
Flush(out, t, cb) == IF cb # <<>> THEN Append(out, search(t, cb)) ELSE out

\* one iteration of `for byte in input_bytes` (lines 71-86)
CompressStep ==
    /\ pc = "compress"
    /\ pos <= Len(input_bytes)
    /\ LET byte == input_bytes[pos]
           new_bytes == Append(c_current_bytes, byte)
       IN  IF search(trie, new_bytes) # None
           THEN /\ c_current_bytes' = new_bytes
                /\ UNCHANGED <<trie, trie_next_code, c_current_code_size,
                               c_max_table_size, compressed_data, enc_after>>
           ELSE LET room == TrieHasRoom(trie_next_code, c_max_table_size)
                    got == get_next_code(trie_next_code)
                    nc == IF room THEN got.next_code ELSE trie_next_code
                    t == IF room THEN insert(trie, new_bytes, got.code) ELSE trie
                    grow == CompressGrows(variable_bits, nc, c_max_table_size,
                                          c_current_code_size, max_bits)
                    size == IF grow THEN c_current_code_size + 1 ELSE c_current_code_size
                    ceiling == IF grow THEN 2 ^ size ELSE c_max_table_size
                IN  /\ compressed_data' = Append(compressed_data, search(trie, c_current_bytes))
                    /\ trie' = t
                    /\ trie_next_code' = nc
                    /\ c_current_bytes' = <<byte>>
                    /\ c_current_code_size' = size
                    /\ c_max_table_size' = ceiling
                    /\ enc_after' = Append(enc_after, Snapshot(t, nc, size, ceiling))
    /\ pos' = pos + 1
    /\ UNCHANGED <<params, pc, dvars, codes_in>>

\* the flush and the return (lines 89-92); the caller then passes the returned list
\* to lzw_decompress with the same max_bits and variable_bits
CompressReturn ==
    /\ pc = "compress"
    /\ pos > Len(input_bytes)
    /\ compressed_data' = Flush(compressed_data, trie, c_current_bytes)
    /\ codes_in' = compressed_data'
    /\ enc_after' = IF Len(compressed_data') > Len(compressed_data)
                    THEN Append(enc_after, enc_after[Len(enc_after)])
                    ELSE enc_after
    /\ pc' = "decompress"
    /\ UNCHANGED <<params, cvars, dvars>>

\* -------------------------------------------------------- lzw_decompress
\* an empty list answered with b"" instead of the exception
PopEmptyReturns ==
    /\ pc = "decompress"
    /\ compressed_data = <<>>
    /\ ret' = <<>>
    /\ pc' = "returned"
    /\ UNCHANGED <<params, cvars, compressed_data, idx, table, next_code, d_current_bytes,
                   d_current_code_size, d_max_table_size, decompressed_data, code,
                   branches, err, codes_in, enc_after>>

\* line 108 on an empty list: list.pop(0) raises IndexError
PopEmpty ==
    /\ pc = "decompress"
    /\ compressed_data = <<>>
    /\ err' = "IndexError"
    /\ pc' = "raised"
    /\ UNCHANGED <<params, cvars, compressed_data, idx, table, next_code, d_current_bytes,
                   d_current_code_size, d_max_table_size, decompressed_data, code,
                   branches, ret, codes_in, enc_after>>

\* the first element read without being removed
pop0Keep(list) == [item |-> Head(list), rest |-> list]

\* line 108: list.pop(0) of a non-empty list: the element, and the list as it is left
pop0(list) == [item |-> Head(list), rest |-> Tail(list)]

\* line 109: table[current_code]; a missing key raises KeyError
FirstLookup(c, tb) == IF c \in DOMAIN tb THEN "table" ELSE "KeyError"

\* lines 108-110: the pop of the first code and its lookup
PopFirst ==
    /\ pc = "decompress"
    /\ compressed_data # <<>>
    /\ LET current_code == pop0(compressed_data).item
       IN  /\ compressed_data' = pop0(compressed_data).rest
           /\ code' = current_code
           /\ IF FirstLookup(current_code, table) = "table"
              THEN /\ d_current_bytes' = table[current_code]
                   /\ decompressed_data' = <<table[current_code]>>
                   /\ branches' = <<"first">>
                   /\ pc' = "loop"
                   /\ err' = err
              ELSE /\ err' = FirstLookup(current_code, table)
                   /\ pc' = "raised"
                   /\ UNCHANGED <<d_current_bytes, decompressed_data, branches>>
    /\ UNCHANGED <<params, cvars, idx, table, next_code, d_current_code_size,
                   d_max_table_size, ret, codes_in, enc_after>>

\* line 117 with >= for ==
ResolveLenient(c, tb, nc) ==
    IF c \in DOMAIN tb THEN "table"
    ELSE IF c >= nc THEN "forward"
    ELSE "ValueError"

\* which branch of lines 114-121 resolves code c
Resolve(c, tb, nc) ==
    IF c \in DOMAIN tb THEN "table"
    ELSE IF c = nc THEN "forward"
    ELSE "ValueError"

\* line 119 without the appended byte
ForwardEntryNoAppend(cb) == cb

\* line 119: entry = current_bytes + current_bytes[:1]
ForwardEntry(cb) == cb \o SubSeq(cb, 1, 1)

\* line 127 with entry[-1:] for entry[:1]
NewEntryLast(cb, entry) == cb \o SubSeq(entry, Len(entry), Len(entry))

\* line 127: table[next_code] = current_bytes + entry[:1]
NewEntry(cb, entry) == cb \o SubSeq(entry, 1, 1)

\* line 126 stopping one entry early
TableHasRoomEarly(nc, ceiling) == nc + 1 < ceiling

\* line 126 with <= for <
TableHasRoomOffByOne(nc, ceiling) == nc <= ceiling

\* line 126: if next_code < max_table_size
TableHasRoom(nc, ceiling) == nc < ceiling

\* line 131 with > for >=
DecompressGrowsLate(vb, nc, ceiling, size, mb) == vb /\ nc > ceiling /\ size < mb

\* line 131: if variable_bits and next_code >= max_table_size and current_code_size < max_bits
DecompressGrows(vb, nc, ceiling, size, mb) == vb /\ nc >= ceiling /\ size < mb

\* one iteration of `for code in compressed_data` (lines 113-135)
DecompressStep ==
    /\ pc = "loop"
    /\ idx <= Len(compressed_data)
    /\ LET c == compressed_data[idx]
           how == Resolve(c, table, next_code)
       IN  /\ code' = c
           /\ IF how = "ValueError"
              THEN /\ err' = how
                   /\ pc' = "raised"
                   /\ UNCHANGED <<idx, table, next_code, d_current_bytes, d_current_code_size,
                                  d_max_table_size, decompressed_data, branches>>
              ELSE LET entry == IF how = "table" THEN table[c]
                                ELSE ForwardEntry(d_current_bytes)
                       room == TableHasRoom(next_code, d_max_table_size)
                       nc == IF room THEN next_code + 1 ELSE next_code
                       tb == IF room
                             THEN [k \in DOMAIN table \cup {next_code} |->
                                     IF k = next_code
                                     THEN NewEntry(d_current_bytes, entry)
                                     ELSE table[k]]
                             ELSE table
                       grow == DecompressGrows(variable_bits, nc, d_max_table_size,
                                               d_current_code_size, max_bits)
                       size == IF grow THEN d_current_code_size + 1 ELSE d_current_code_size
                   IN  /\ branches' = Append(branches, how)
                       /\ decompressed_data' = Append(decompressed_data, entry)
                       /\ table' = tb
                       /\ next_code' = nc
                       /\ d_current_code_size' = size
                       /\ d_max_table_size' = IF grow THEN 2 ^ size ELSE d_max_table_size
                       /\ d_current_bytes' = entry
                       /\ idx' = idx + 1
                       /\ UNCHANGED <<pc, err>>
    /\ UNCHANGED <<params, cvars, compressed_data, ret, codes_in, enc_after>>

RECURSIVE Join(_)
\* b''.join(chunks)
Join(chunks) == IF chunks = <<>> THEN <<>> ELSE Head(chunks) \o Join(Tail(chunks))

\* line 137: return b''.join(decompressed_data)
DecompressReturn ==
    /\ pc = "loop"
    /\ idx > Len(compressed_data)
    /\ ret' = Join(decompressed_data)
    /\ pc' = "returned"
    /\ UNCHANGED <<params, cvars, compressed_data, idx, table, next_code, d_current_bytes,
                   d_current_code_size, d_max_table_size, decompressed_data, code, branches,
                   err, codes_in, enc_after>>

\* ------------------------------------------- the two functions as operators
\* The same code as the actions above, as functions of their arguments, built from
\* the same line-by-line operators: they give the result of a call whose parameters
\* are not the ones of the run.

\* lines 72-86: the loop body of lzw_compress on state st and one byte
CompressIter(st, byte, mb, vb) ==
    LET new_bytes == Append(st.current_bytes, byte)
    IN  IF search(st.trie, new_bytes) # None
        THEN [st EXCEPT !.current_bytes = new_bytes]
        ELSE LET room == TrieHasRoom(st.next_code, st.max_table_size)
                 got == get_next_code(st.next_code)
                 nc == IF room THEN got.next_code ELSE st.next_code
                 t == IF room THEN insert(st.trie, new_bytes, got.code) ELSE st.trie
                 grow == CompressGrows(vb, nc, st.max_table_size, st.current_code_size, mb)
                 size == IF grow THEN st.current_code_size + 1 ELSE st.current_code_size
             IN  [trie |-> t,
                  next_code |-> nc,
                  current_bytes |-> <<byte>>,
                  current_code_size |-> size,
                  max_table_size |-> IF grow THEN 2 ^ size ELSE st.max_table_size,
                  compressed_data |->
                      Append(st.compressed_data, search(st.trie, st.current_bytes))]

RECURSIVE CompressFrom(_, _, _, _, _)
\* lines 71-92: the loop from byte i on, the flush and the returned pair
CompressFrom(st, input, i, mb, vb) ==
    IF i > Len(input)
    THEN [codes |-> Flush(st.compressed_data, st.trie, st.current_bytes),
          size |-> st.current_code_size]
    ELSE CompressFrom(CompressIter(st, input[i], mb, vb), input, i + 1, mb, vb)

\* lzw_compress(input_bytes, max_bits, variable_bits)
lzw_compress(input, mb, vb) ==
    CompressFrom([trie |-> InitTrie(AlphabetSize),
                  next_code |-> FirstCode,
                  current_bytes |-> <<>>,
                  current_code_size |-> InitCodeSize(vb, mb),
                  max_table_size |-> 2 ^ InitCodeSize(vb, mb),
                  compressed_data |-> <<>>],
                 input, 1, mb, vb)

\* lines 114-135: the loop body of lzw_decompress on state st and a code resolved as how
DecompressIter(st, c, how, mb, vb) ==
    LET entry == IF how = "table" THEN st.table[c] ELSE ForwardEntry(st.current_bytes)
        room == TableHasRoom(st.next_code, st.max_table_size)
        nc == IF room THEN st.next_code + 1 ELSE st.next_code
        tb == IF room
              THEN [k \in DOMAIN st.table \cup {st.next_code} |->
                      IF k = st.next_code
                      THEN NewEntry(st.current_bytes, entry)
                      ELSE st.table[k]]
              ELSE st.table
        grow == DecompressGrows(vb, nc, st.max_table_size, st.current_code_size, mb)
        size == IF grow THEN st.current_code_size + 1 ELSE st.current_code_size
    IN  [table |-> tb,
         next_code |-> nc,
         current_bytes |-> entry,
         current_code_size |-> size,
         max_table_size |-> IF grow THEN 2 ^ size ELSE st.max_table_size,
         decompressed_data |-> Append(st.decompressed_data, entry)]

RECURSIVE DecompressFrom(_, _, _, _, _)
\* lines 113-137: the loop from element i of the list on, and the return or the raise
DecompressFrom(st, list, i, mb, vb) ==
    IF i > Len(list)
    THEN [kind |-> "returned", ret |-> Join(st.decompressed_data), err |-> "none"]
    ELSE LET how == Resolve(list[i], st.table, st.next_code)
         IN  IF how = "ValueError"
             THEN [kind |-> "raised", ret |-> <<>>, err |-> how]
             ELSE DecompressFrom(DecompressIter(st, list[i], how, mb, vb),
                                 list, i + 1, mb, vb)

\* lzw_decompress(compressed_data, max_bits, variable_bits): what it returns or raises
lzw_decompress(codes, mb, vb) ==
    IF codes = <<>>
    THEN [kind |-> "raised", ret |-> <<>>, err |-> "IndexError"]
    ELSE LET first == pop0(codes)
         IN  IF FirstLookup(first.item, InitTable) # "table"
             THEN [kind |-> "raised", ret |-> <<>>,
                   err |-> FirstLookup(first.item, InitTable)]
             ELSE DecompressFrom([table |-> InitTable,
                                  next_code |-> FirstCode,
                                  current_bytes |-> InitTable[first.item],
                                  current_code_size |-> InitCodeSize(vb, mb),
                                  max_table_size |-> 2 ^ InitCodeSize(vb, mb),
                                  decompressed_data |-> <<InitTable[first.item]>>],
                                 first.rest, 1, mb, vb)

Next ==
    \/ CompressStep
    \/ CompressReturn
    \/ PopEmpty
    \/ PopFirst
    \/ DecompressStep
    \/ DecompressReturn

Spec == Init /\ [][Next]_vars


\* ----------------------------------------------------------------- claims
\* lzw_decompress has ended
Done == pc \in {"returned", "raised"}

\* the interface's max_bits >= 9
ValidBits == max_bits >= InitWidth

\* the number of codes lzw_decompress has consumed
Consumed == Len(decompressed_data)

\* the codes lzw_compress has appended so far
Emitted == IF pc = "compress" THEN compressed_data ELSE codes_in

\* C1 as stated: for every input, the empty one included, and max_bits >= 9,
\* decompressing the compressed list returns the input.
C1_RoundTripAll ==
    (mode = "roundtrip" /\ ValidBits /\ Done) => (pc = "returned" /\ ret = input_bytes)

\* C1 amended: for every non-empty input and max_bits >= 9, decompressing the
\* compressed list with the same parameters returns exactly the input.
C1_RoundTrip ==
    (mode = "roundtrip" /\ ValidBits /\ input_bytes # <<>> /\ Done)
        => (pc = "returned" /\ ret = input_bytes)

C1_Witness ==
    /\ mode = "roundtrip" /\ pc = "returned" /\ ret = input_bytes
    /\ Len(input_bytes) = MaxLen
    /\ variable_bits /\ d_current_code_size > InitWidth
    /\ \E i \in 1 .. Len(branches) : branches[i] = "forward"

\* C2 as stated: when the decoder has consumed the k codes the encoder had
\* emitted, the table holds exactly the pairs of the encoder's trie at that point.
C2_ParitySameCount ==
    (mode = "roundtrip" /\ ValidBits /\ pc \in {"loop", "returned"})
        => TablePairs(table) = enc_after[Consumed + 1].pairs

\* C2 amended: the decoder lags by one code: after consuming k >= 1 codes its
\* table holds exactly the pairs the encoder's trie held after emitting k - 1 codes.
C2_ParityLagOne ==
    (mode = "roundtrip" /\ pc \in {"loop", "returned"})
        => (Consumed >= 1 /\ TablePairs(table) = enc_after[Consumed].pairs)

C2_Witness ==
    /\ mode = "roundtrip" /\ pc = "loop"
    /\ Consumed >= 3
    /\ next_code >= FirstCode + 2
    /\ TablePairs(table) # enc_after[Consumed + 1].pairs

\* C3: a later code that is neither a key of the table nor equal to next_code when
\* it is consumed makes the call raise the invalid-code error; nothing is returned,
\* the chunks decoded so far included.
C3_InvalidCodeRaises ==
    /\ [][(/\ pc = "loop"
           /\ idx <= Len(compressed_data)
           /\ compressed_data[idx] \notin DOMAIN table
           /\ compressed_data[idx] # next_code)
          => (pc' = "raised" /\ err' = "ValueError" /\ ret' = <<>>)]_vars
    /\ [][pc = "raised" => (pc' = "raised" /\ ret' = <<>>)]_vars

C3_Witness ==
    /\ pc = "raised" /\ err = "ValueError"
    /\ Len(decompressed_data) >= 2
    /\ ret = <<>>

\* C4: a first code that was never assigned (>= 256) fails with the same invalid-code
\* error as an unassigned later code.
C4_FirstCodeInvalid ==
    (/\ pc \in {"loop", "returned", "raised"}
     /\ ValidBits
     /\ codes_in # <<>>
     /\ codes_in[1] >= FirstCode)
        => (pc = "raised" /\ err = "ValueError")

\* C5: lzw_decompress of an empty list raises before any output, for every max_bits
\* and variable_bits; no call returns an empty byte string.
C5_EmptyInputFails ==
    /\ (codes_in = <<>> /\ pc \notin {"compress", "decompress"})
        => (pc = "raised" /\ err = "IndexError" /\ decompressed_data = <<>>)
    /\ pc = "returned" => ret # <<>>

C5_Witness ==
    mode = "decode" /\ codes_in = <<>> /\ pc = "raised" /\ variable_bits

\* C6: lzw_compress of the empty input returns no code, and the initial width: 9
\* under variable_bits, max_bits otherwise.
C6_EmptyCompress ==
    (mode = "roundtrip" /\ input_bytes = <<>> /\ pc # "compress")
        => /\ codes_in = <<>>
           /\ c_current_code_size = IF variable_bits THEN InitWidth ELSE max_bits

C6_Witness ==
    /\ mode = "roundtrip" /\ input_bytes = <<>> /\ pc = "decompress"
    /\ ~variable_bits /\ max_bits > InitWidth

\* C7: for max_bits >= 9 every code lzw_compress appends is a non-negative integer,
\* never None, the flush code included; every new code was allocated while below the
\* ceiling 2^width in force at that moment; and the codes of the single bytes map to
\* those bytes throughout, in the trie and in the table.
C7_CodeRange ==
    /\ (mode = "roundtrip" /\ ValidBits) =>
        /\ \A i \in 1 .. Len(Emitted) :
              /\ Emitted[i] # None
              /\ Emitted[i] >= 0
              /\ Emitted[i] < trie_next_code
        /\ \A k \in 1 .. (Len(enc_after) - 1) :
              /\ enc_after[k].ceiling = 2 ^ enc_after[k].size
              /\ enc_after[k + 1].pairs # enc_after[k].pairs =>
                    /\ enc_after[k].next_code < enc_after[k].ceiling
                    /\ \E p \in DOMAIN trie :
                          enc_after[k + 1].pairs =
                              enc_after[k].pairs \cup {<<p, enc_after[k].next_code>>}
    /\ ValidBits =>
        \A b \in Bytes : search(trie, <<b>>) = b /\ b \in DOMAIN table /\ table[b] = <<b>>

C7_Witness ==
    /\ mode = "roundtrip" /\ ValidBits /\ pc = "decompress"
    /\ trie_next_code = c_max_table_size
    /\ \E i \in 1 .. Len(codes_in) : codes_in[i] = trie_next_code - 1

\* a run of one byte, three bytes or longer
IsRun(s) == Len(s) >= 3 /\ \A i \in 1 .. Len(s) : s[i] = s[1]

\* C8: a run of n >= 3 equal bytes is recovered exactly, and its decode takes the
\* forward-reference branch at least once; whenever that branch is taken on a list
\* produced by lzw_compress, the entry it builds is the sequence the encoder
\* registered under that code.
C8_DegenerateRepeats ==
    /\ (mode = "roundtrip" /\ ValidBits /\ IsRun(input_bytes) /\ Done) =>
        /\ pc = "returned"
        /\ ret = input_bytes
        /\ \E i \in 1 .. Len(branches) : branches[i] = "forward"
    /\ (/\ mode = "roundtrip"
        /\ pc \in {"loop", "returned"}
        /\ branches[Len(branches)] = "forward") =>
        /\ decompressed_data[Consumed] = d_current_bytes
        /\ <<d_current_bytes, code>> \in TriePairs(trie)

C8_Witness ==
    /\ mode = "roundtrip" /\ ValidBits /\ IsRun(input_bytes) /\ Len(input_bytes) = MaxLen
    /\ pc = "returned" /\ ret = input_bytes
    /\ Cardinality({i \in 1 .. Len(branches) : branches[i] = "forward"}) >= 2

\* C9: during lzw_compress with max_bits >= 9 the width under variable_bits starts at
\* 9, never decreases from one step to the next and never exceeds max_bits; without
\* variable_bits it equals max_bits in every state, the returned width included.
C9_MonotonicWidth ==
    /\ [](/\ (mode = "roundtrip" /\ ValidBits /\ variable_bits) =>
              /\ enc_after[1].size = InitWidth
              /\ InitWidth <= c_current_code_size
              /\ c_current_code_size <= max_bits
          /\ (mode = "roundtrip" /\ ValidBits /\ ~variable_bits) =>
              c_current_code_size = max_bits)
    /\ [][(mode = "roundtrip" /\ ValidBits) =>
              c_current_code_size' >= c_current_code_size]_vars

C9_Witness ==
    /\ mode = "roundtrip" /\ ValidBits /\ variable_bits /\ pc = "decompress"
    /\ c_current_code_size = max_bits
    /\ c_current_code_size > InitWidth
    /\ trie_next_code > c_max_table_size \div 2

\* the codes of a set of (sequence, code) pairs
CodesOf(pairs) == {pr[2] : pr \in pairs}

\* the state part of the code assignment: the codes in use are 0 .. next_code - 1,
\* each for one sequence, and the single bytes keep their codes
AssignedOnce ==
    /\ CodesOf(TriePairs(trie)) = 0 .. (trie_next_code - 1)
    /\ Cardinality(TriePairs(trie)) = trie_next_code
    /\ DOMAIN table = 0 .. (next_code - 1)
    /\ \A b \in Bytes : search(trie, <<b>>) = b /\ table[b] = <<b>>

\* no sequence is in the table under two codes
TableOneCodePerSequence ==
    \A c1, c2 \in DOMAIN table : table[c1] = table[c2] => c1 = c2

\* C10 as stated: in lzw_compress and in lzw_decompress, codes are used once, and no
\* sequence receives two codes (checked for max_bits >= 9).
C10_OneCodePerSequence == ValidBits => (AssignedOnce /\ TableOneCodePerSequence)

\* C10 amended: in lzw_compress and in lzw_decompress new entries get the codes 256,
\* 257, ... in increasing order without gaps, no code is assigned to two sequences and
\* the entries of codes 0..255 are never overwritten; no sequence receives two codes in
\* lzw_compress, nor in lzw_decompress when the list was produced by lzw_compress with
\* the same parameters.
C10_CodeAssignment ==
    /\ [](AssignedOnce /\ (mode = "roundtrip" => TableOneCodePerSequence))
    /\ [][/\ trie' # trie =>
              /\ trie_next_code' = trie_next_code + 1
              /\ \E p \in DOMAIN trie' :
                    /\ search(trie, p) = None
                    /\ TriePairs(trie') = TriePairs(trie) \cup {<<p, trie_next_code>>}
          /\ trie' = trie => trie_next_code' = trie_next_code
          /\ table' # table =>
              /\ next_code' = next_code + 1
              /\ DOMAIN table' = DOMAIN table \cup {next_code}
              /\ \A c \in DOMAIN table : table'[c] = table[c]
          /\ table' = table => next_code' = next_code]_vars

C10_Witness ==
    /\ mode = "roundtrip" /\ pc = "returned"
    /\ trie_next_code >= FirstCode + 3
    /\ next_code = trie_next_code

\* C11: for max_bits >= 9, in either width mode, the number of entries, which is
\* next_code, never exceeds 2^max_bits in lzw_compress nor in lzw_decompress; once
\* next_code is 2^max_bits no entry is added and the dictionary stays as it is while
\* further codes are emitted and decoded.
C11_TableBound ==
    /\ [](ValidBits =>
            /\ trie_next_code <= 2 ^ max_bits
            /\ next_code <= 2 ^ max_bits
            /\ Cardinality(TriePairs(trie)) = trie_next_code
            /\ Cardinality(DOMAIN table) = next_code)
    /\ [][ValidBits =>
            /\ trie_next_code = 2 ^ max_bits =>
                  (trie' = trie /\ trie_next_code' = trie_next_code)
            /\ next_code = 2 ^ max_bits =>
                  (table' = table /\ next_code' = next_code)]_vars

C11_Witness ==
    /\ mode = "roundtrip" /\ ValidBits /\ pc = "returned"
    /\ next_code = 2 ^ max_bits
    /\ trie_next_code = 2 ^ max_bits
    /\ Len(enc_after) >= 4
    /\ enc_after[Len(enc_after) - 2].next_code = 2 ^ max_bits
    /\ Len(branches) >= 2

\* sequence p is registered in trie t
Registered(t, p) == p \in DOMAIN t /\ t[p] # None

\* the longest prefix of rest that is registered in t (rest is not empty)
LongestRegistered(t, rest) ==
    LET lens == {i \in 1 .. Len(rest) : Registered(t, SubSeq(rest, 1, i))}
    IN  SubSeq(rest, 1, CHOOSE i \in lens : \A j \in lens : j <= i)

\* the sequences that the codes of a list stand for in trie t
Phrases(t, codes) ==
    [i \in 1 .. Len(codes) |-> CHOOSE p \in DOMAIN t : t[p] = codes[i]]

\* C13: every code lzw_compress emits, the flush included, is the code of the longest
\* prefix of the not yet encoded input that is registered at that moment; the
\* sequences of the emitted codes concatenate to the input; a non-empty input gets
\* exactly one flush code, an empty one none.
C13_GreedyLongestMatch ==
    /\ [](mode = "roundtrip" =>
            IF pc = "compress"
            THEN Join(Phrases(trie, compressed_data)) \o c_current_bytes
                    = SubSeq(input_bytes, 1, pos - 1)
            ELSE Join(Phrases(trie, codes_in)) = input_bytes)
    /\ [][(mode = "roundtrip" /\ pc = "compress") =>
            LET rest == SubSeq(input_bytes, pos - Len(c_current_bytes), Len(input_bytes))
            IN  /\ compressed_data' # compressed_data =>
                      compressed_data' =
                          Append(compressed_data, trie[LongestRegistered(trie, rest)])
                /\ pc' # "compress" =>
                      /\ rest = c_current_bytes
                      /\ Len(compressed_data') =
                            Len(compressed_data) + (IF input_bytes # <<>> THEN 1 ELSE 0)]_vars

C13_Witness ==
    /\ mode = "roundtrip" /\ pc = "decompress"
    /\ Len(input_bytes) = MaxLen
    /\ Len(codes_in) >= 3
    /\ \E i \in 1 .. Len(codes_in) : Len(Phrases(trie, codes_in)[i]) >= 3
    /\ trie_next_code = c_max_table_size

\* the sequences of a set of (sequence, code) pairs
SequencesOf(pairs) == {pr[1] : pr \in pairs}

\* C14: every sequence lzw_compress inserts after the initialisation is not yet
\* registered while its immediate prefix is; so every node of the trie but the root
\* holds a code, the root holds none, the registered sequences are prefix-closed and
\* no insert leaves a node without a code.
C14_TrieWellFormed ==
    /\ \A p \in DOMAIN trie : (p = <<>>) <=> (trie[p] = None)
    /\ \A p \in DOMAIN trie :
          p # <<>> => SubSeq(p, 1, Len(p) - 1) \in DOMAIN trie
    /\ \A k \in 1 .. (Len(enc_after) - 1) :
          \A pr \in enc_after[k + 1].pairs \ enc_after[k].pairs :
              /\ Len(pr[1]) >= 2
              /\ pr[1] \notin SequencesOf(enc_after[k].pairs)
              /\ SubSeq(pr[1], 1, Len(pr[1]) - 1) \in SequencesOf(enc_after[k].pairs)

C14_Witness ==
    /\ mode = "roundtrip" /\ pc = "decompress"
    /\ \E p \in DOMAIN trie : Len(p) >= 3
    /\ Cardinality(DOMAIN trie) >= FirstCode + 4

\* C15: in lzw_compress and in lzw_decompress the width changes only in a step that
\* has just inserted an entry, by exactly one bit, and exactly when next_code has
\* reached the ceiling in force and the width is below max_bits; the ceiling is
\* 2^width in every state.
C15_WidthGrowthRule ==
    /\ [](/\ c_max_table_size = 2 ^ c_current_code_size
          /\ d_max_table_size = 2 ^ d_current_code_size)
    /\ [][/\ c_current_code_size' # c_current_code_size <=>
                /\ trie' # trie
                /\ trie_next_code' = c_max_table_size
                /\ c_current_code_size < max_bits
          /\ c_current_code_size' # c_current_code_size =>
                c_current_code_size' = c_current_code_size + 1
          /\ d_current_code_size' # d_current_code_size <=>
                /\ table' # table
                /\ next_code' = d_max_table_size
                /\ d_current_code_size < max_bits
          /\ d_current_code_size' # d_current_code_size =>
                d_current_code_size' = d_current_code_size + 1]_vars

C15_Witness ==
    /\ mode = "roundtrip" /\ variable_bits /\ pc = "returned"
    /\ c_current_code_size = InitWidth + 1
    /\ d_current_code_size = InitWidth + 1
    /\ next_code > 2 ^ InitWidth + 1
    /\ \E k \in 1 .. Len(enc_after) : enc_after[k].size = InitWidth /\ k >= 2

\* the decoder's dictionary state, in the shape of the encoder's snapshots
DecoderState ==
    [pairs |-> TablePairs(table), next_code |-> next_code,
     size |-> d_current_code_size, ceiling |-> d_max_table_size]

\* C16: for a non-empty input and matching parameters, the decoder's table,
\* next_code, width and ceiling after j + 1 consumed codes are the encoder's after j
\* emitted codes, for every j; when the whole list is consumed they are the encoder's
\* final ones, so the width lzw_compress returned is the decoder's final width.
C16_LagOneSync ==
    (mode = "roundtrip" /\ pc \in {"loop", "returned"}) =>
        /\ input_bytes # <<>>
        /\ DecoderState = enc_after[Consumed]
        /\ Consumed = Len(codes_in) =>
              /\ DecoderState =
                    Snapshot(trie, trie_next_code, c_current_code_size, c_max_table_size)
              /\ d_current_code_size = c_current_code_size

C16_Witness ==
    /\ mode = "roundtrip" /\ pc = "loop" /\ variable_bits
    /\ idx <= Len(compressed_data)
    /\ d_current_code_size > InitWidth
    /\ d_current_code_size < c_current_code_size + 1
    /\ next_code < trie_next_code

\* C17 as stated: lzw_decompress leaves the caller's list as it was, whether it
\* returns or raises.
C17_ListUnchanged ==
    (ValidBits /\ pc \in {"loop", "returned", "raised"}) => compressed_data = codes_in

\* C17 amended: lzw_decompress removes the first code from the caller's list and
\* changes nothing else in it: from the pop on, and after the call whether it returns
\* or raises, the list holds the original codes but the first, in the same order; an
\* empty list stays empty.
C17_ListLosesFirst ==
    pc \in {"loop", "returned", "raised"} =>
        compressed_data = IF codes_in = <<>> THEN <<>> ELSE Tail(codes_in)

C17_Witness ==
    /\ pc = "returned"
    /\ Len(codes_in) >= 3
    /\ Len(compressed_data) = Len(codes_in) - 1
    /\ compressed_data # codes_in

\* what the call of lzw_decompress of this run returned or raised
Outcome == [kind |-> pc, ret |-> ret, err |-> err]

\* C18: for max_bits >= 9 the width mode does not change the codes: lzw_compress
\* emits the same list with variable_bits as without (the returned widths may
\* differ), and lzw_decompress of any list gives the same bytes or the same error in
\* both modes.
C18_WidthModeSameCodes ==
    /\ (mode = "roundtrip" /\ ValidBits /\ pc = "decompress") =>
          /\ codes_in = lzw_compress(input_bytes, max_bits, variable_bits).codes
          /\ codes_in = lzw_compress(input_bytes, max_bits, ~variable_bits).codes
          /\ c_current_code_size =
                lzw_compress(input_bytes, max_bits, variable_bits).size
    /\ (ValidBits /\ Done) =>
          /\ Outcome = lzw_decompress(codes_in, max_bits, variable_bits)
          /\ Outcome = lzw_decompress(codes_in, max_bits, ~variable_bits)

C18_Witness ==
    /\ mode = "roundtrip" /\ ValidBits /\ variable_bits /\ pc = "returned"
    /\ c_current_code_size > InitWidth
    /\ trie_next_code > 2 ^ InitWidth
    /\ Len(codes_in) >= 5
    /\ \E i \in 1 .. Len(codes_in) : codes_in[i] >= 2 ^ InitWidth

\* C19: for max_bits >= 9 every code lzw_decompress resolves without raising is below
\* 2^max_bits; with the table full (next_code = 2^max_bits) a code equal to next_code
\* is rejected, not decoded as a forward reference.
C19_ResolvedBelowBound ==
    (ValidBits /\ pc \in {"loop", "returned"}) =>
        \A i \in 1 .. Consumed : codes_in[i] < 2 ^ max_bits

====
